---------------------------- MODULE Spec2Model ----------------------------
(***************************************************************************)
(* Model of the Dune-HD integration driver: the device object             *)
(* (src/src/device.py: the connection / poll loop of DuneHDDevice, its     *)
(* status-to-attributes mapping, its changed-attribute filter and its      *)
(* command handler) and the handlers of src/src/driver.py around it.       *)
(*                                                                         *)
(* Modelling conventions                                                   *)
(*  - An Optional[...] value of the source is a sequence: <<>> is None and *)
(*    <<v>> is the value v.                                                *)
(*  - A Python dict is a TLA+ function (a record when all keys are there). *)
(*  - The asyncio event loop runs one callback at a time, so every action  *)
(*    is the code between two suspension points of a coroutine, or one     *)
(*    synchronous call (connect, disconnect).  A task suspends at          *)
(*    `await client.ui_state()` and at `await asyncio.sleep(delay)`.       *)
(*  - Task.cancel() marks the task; the CancelledError is delivered at the *)
(*    task's suspension point when the event loop next runs the task (or   *)
(*    before its first statement when it never ran).                       *)
(*  - Times are in tenths of a second (the floor of the source's sleep is  *)
(*    0.1 s).                                                              *)
(***************************************************************************)
EXTENDS Integers, Sequences, FiniteSets, TLC

(***************************************************************************)
(* Bounds of the model                                                     *)
(***************************************************************************)
MaxTasks == 2
MaxEvents == 5
MaxAttempt == 2
\* the specification of the backoff, SpecBackoff, has bounds of its own: the
\* counter has to pass 15, where the backoff reaches BACKOFF_MAX
MaxBackoffEvents == 4
MaxBackoffAttempt == 16

(***************************************************************************)
(* Program constants                                                       *)
(***************************************************************************)
BACKOFF_MAX == 30
BACKOFF_SEC == 2
POLL_INTERVAL == 1
\* a URL is a tuple of its components; EMPTY_IMAGE is a data: URL
EMPTY_IMAGE == <<"data", "image/png;base64", "iVBORw0KGgo">>

None == <<>>
Some(v) == <<v>>

\* class EVENTS
CONNECTING_EVENT == "EVENTS.CONNECTING"
CONNECTED_EVENT == "EVENTS.CONNECTED"
DISCONNECTED_EVENT == "EVENTS.DISCONNECTED"
UPDATE_EVENT == "EVENTS.UPDATE"

\* class _ConnectionState
DISCONNECTED == "DISCONNECTED"
CONNECTING == "CONNECTING"
CONNECTED == "CONNECTED"
ConnectionStates == {DISCONNECTED, CONNECTING, CONNECTED}

\* the keys of ucapi.media_player.Attributes the device uses
AttributeKeys ==
    {"state", "media_type", "media_duration", "media_position",
     "media_title", "media_image_url", "volume", "muted"}

\* DuneHDDevice.__init__: the initial _media_player_attributes
DefaultAttributes ==
    [state |-> "UNAVAILABLE", media_type |-> "", media_duration |-> 0,
     media_position |-> 0, media_title |-> "", media_image_url |-> EMPTY_IMAGE,
     volume |-> 0, muted |-> FALSE]

\* the address of the configured device (DuneHDDeviceConfig.address)
Address == "10.0.0.2"
Identifier == "dune1"

(***************************************************************************)
(* dunehd.Client.get_file_url: builds                                      *)
(* http://<address>/cgi-bin/do?cmd=get_file&path=<path>                    *)
(***************************************************************************)
get_file_url(path) == <<"http", Address, "/cgi-bin/do?cmd=get_file&path=", path>>

(***************************************************************************)
(* dunehd.Status as returned by Client.ui_state().  Fields the mapper      *)
(* reads:                                                                  *)
(*   player_state (required), playback_state, playback_is_buffering,       *)
(*   playback_duration, playback_position, playback_caption,               *)
(*   playback_picture (all Optional, default None), playback_volume,       *)
(*   playback_mute (required), ui_state.                                   *)
(* ui_state is Optional[UIState] with the class default (None,): a tuple   *)
(* that has no attribute `screen`.  Its modelled values:                   *)
(*   "tuple"    the field was absent from the reply, the default applies   *)
(*   "null"     the reply carried null                                     *)
(*   [screen |-> None]                       UIState without a screen      *)
(*   [screen |-> Some([bg_url |-> None])]    a screen without bg_url       *)
(*   [screen |-> Some([bg_url |-> Some(u)])] a screen with bg_url u        *)
(***************************************************************************)
UiTuple == [kind |-> "tuple"]
UiNull == [kind |-> "null"]
UiState(screen) == [kind |-> "UIState", screen |-> screen]

\* status.ui_state.screen.bg_url raises AttributeError when ui_state is the
\* tuple default or None, or when screen is None
ui_bg_url_raises(status) ==
    \/ status.ui_state.kind # "UIState"
    \/ status.ui_state.screen = None

ui_bg_url(status) == status.ui_state.screen[1].bg_url

\* Python truthiness of an Optional int / str / bool
truthy_int(o) == o # None /\ o[1] # 0
truthy_str(o) == o # None /\ o[1] # ""
truthy_bool(o) == o # None /\ o[1]

\* faulty variant: the buffering rule is tested before the standby rule
state_for_status_buffering_first(status, prev) ==
    IF truthy_bool(status.playback_is_buffering)
       \/ status.playback_state = Some("initializing") THEN "BUFFERING"
    ELSE IF status.player_state = "standby" THEN "OFF"
    ELSE IF status.playback_state = Some("playing") THEN "PLAYING"
    ELSE IF status.playback_state = Some("paused") THEN "PAUSED"
    ELSE IF status.playback_state = Some("seeking") THEN prev.state
    ELSE "ON"

\* faulty variant: the seeking rule is missing, seeking falls through to On
state_for_status_without_seeking_rule(status, prev) ==
    IF status.player_state = "standby" THEN "OFF"
    ELSE IF truthy_bool(status.playback_is_buffering)
            \/ status.playback_state = Some("initializing") THEN "BUFFERING"
    ELSE IF status.playback_state = Some("playing") THEN "PLAYING"
    ELSE IF status.playback_state = Some("paused") THEN "PAUSED"
    ELSE "ON"

\* faulty variant: a playback mode of initializing is not treated as buffering
state_for_status_initializing_ignored(status, prev) ==
    IF status.player_state = "standby" THEN "OFF"
    ELSE IF truthy_bool(status.playback_is_buffering) THEN "BUFFERING"
    ELSE IF status.playback_state = Some("playing") THEN "PLAYING"
    ELSE IF status.playback_state = Some("paused") THEN "PAUSED"
    ELSE IF status.playback_state = Some("seeking") THEN prev.state
    ELSE "ON"

(***************************************************************************)
(* DuneHDDevice._attributes_for_status, lines 270-281: the state attribute.*)
(* prev is self._media_player_attributes at the time of the call.          *)
(***************************************************************************)
state_for_status(status, prev) ==
    IF status.player_state = "standby" THEN "OFF"
    ELSE IF truthy_bool(status.playback_is_buffering)
            \/ status.playback_state = Some("initializing") THEN "BUFFERING"
    ELSE IF status.playback_state = Some("playing") THEN "PLAYING"
    ELSE IF status.playback_state = Some("paused") THEN "PAUSED"
    ELSE IF status.playback_state = Some("seeking") THEN prev.state
    ELSE "ON"

\* lines 290-297: whether evaluating the image-url conditions raises
attributes_for_status_raises(status) ==
    /\ ~(status.playback_state # None /\ status.playback_picture # None)
    /\ status.playback_state # None
    /\ ui_bg_url_raises(status)

image_url_for_status(status) ==
    IF status.playback_state # None /\ status.playback_picture # None
    THEN get_file_url(status.playback_picture[1])
    ELSE IF status.playback_state # None /\ ui_bg_url(status) # None
    THEN get_file_url(ui_bg_url(status)[1])
    ELSE EMPTY_IMAGE

\* the dict returned by _attributes_for_status when it does not raise
attributes_for_status(status, prev) ==
    [state |-> state_for_status(status, prev),
     media_type |-> IF status.playback_state # None THEN "VIDEO" ELSE "",
     media_duration |->
        IF truthy_int(status.playback_duration) THEN status.playback_duration[1] ELSE 0,
     media_position |->
        IF truthy_int(status.playback_position) THEN status.playback_position[1] ELSE 0,
     media_title |->
        IF truthy_str(status.playback_caption) THEN status.playback_caption[1] ELSE "",
     media_image_url |-> image_url_for_status(status),
     volume |-> status.playback_volume,
     muted |-> status.playback_mute]

\* dict.get(key)
dict_get(d, key) == IF key \in DOMAIN d THEN Some(d[key]) ELSE None

\* faulty variant: no full resend when the state attribute changed
filter_changed_attributes_no_state_rule(old_attributes, new_attributes) ==
    IF old_attributes = None THEN new_attributes
    ELSE LET old == old_attributes[1]
             keys == DOMAIN new_attributes \cup DOMAIN old
             changed == {key \in keys : dict_get(new_attributes, key) # dict_get(old, key)}
         IN  [key \in changed |-> new_attributes[key]]

(***************************************************************************)
(* DuneHDDevice._filter_changed_attributes.  old is None (<<>>) or         *)
(* Some(dict).                                                             *)
(***************************************************************************)
filter_changed_attributes(old_attributes, new_attributes) ==
    IF old_attributes = None THEN new_attributes
    ELSE IF dict_get(old_attributes[1], "state") # dict_get(new_attributes, "state")
    THEN new_attributes
    ELSE LET old == old_attributes[1]
             keys == DOMAIN new_attributes \cup DOMAIN old
             changed == {key \in keys : dict_get(new_attributes, key) # dict_get(old, key)}
         IN  [key \in changed |-> new_attributes[key]]

(***************************************************************************)
(* State of one DuneHDDevice and of the event loop's tasks                 *)
(***************************************************************************)
VARIABLES
    connection_state,          \* self._connection_state
    connection_task,           \* self._connection_task: None or Some(task index)
    media_player_attributes,   \* self._media_player_attributes
    tasks,                     \* every task created by connect(), in creation order
    events,                    \* the calls of self.events.emit, in program order
    last_op,                   \* history: the operation or loop step taken last
    call,                      \* one call of a pure method: arguments and result
    driver,                    \* driver.py: its module state, the hub's entity tables and config.devices
    command                    \* one call of _media_player_cmd_handler: its position and status code

vars == <<connection_state, connection_task, media_player_attributes, tasks,
          events, last_op, call, driver, command>>

\* self.events.emit(type, identifier [, attributes]).  The field
\* connection_state is history: self._connection_state at the time of the call
emit(log, type, payload, state) ==
    Append(log, [type |-> type, args |-> <<Identifier>> \o payload,
                 connection_state |-> state])

\* a task as loop.create_task(self._connection()) leaves it: not yet run.
\*   pc            where the coroutine is suspended: "created", "request"
\*                 (await client.ui_state()), "sleep" (await asyncio.sleep), "done"
\*   must_cancel   Task.cancel() was called and not yet delivered
\*   cancelled_in  history: the pc at which cancel() found the task ("" if never)
\*   connection_attempt, delay, duration   the coroutine's locals; delay and
\*                 duration are kept only while the task sleeps (they are
\*                 assigned again before they are next read)
\*   last_poll     history: how the loop's latest poll ended ("none", "ok",
\*                 "failed")
\*   failures      history: the number of failed polls since the loop was
\*                 entered or last polled successfully
\*   response_arrived   the future that `await client.ui_state()` waits for is
\*                 done and the task is scheduled to resume, but has not run
\*                 yet; kept after a cancellation as history
NewTask ==
    [pc |-> "created", must_cancel |-> FALSE, cancelled_in |-> "",
     connection_attempt |-> 0, delay |-> 0, duration |-> 0, last_poll |-> "none",
     failures |-> 0, response_arrived |-> FALSE]

\* driver.py after import and before main(), for the one device the model
\* follows.
\*   config               config.devices holds the device's configuration
\*   configured_devices   _configured_devices holds the device's object
\*   listeners            the event types device.events has a listener for
\*   scheduled            the handler tasks made by emit for the listeners
\*                        present when it was called, in order, not yet run
\*   available_entities, configured_entities   the hub's tables hold
\*                        device.media_player
\*   entity_attributes    device.media_player.attributes: one entity object
\*                        is in both tables, and it starts with the mapping
\*                        _create_media_player was given
\*   device_state         the argument of the latest api.set_device_state
\*   started              main() has run
\*   op, ids, handled, raised   history: the handler run last, its entity
\*                        ids, the index in `events` of the device event it
\*                        handled and the exception that ended it
DriverIdle ==
    [config |-> FALSE, configured_devices |-> FALSE, listeners |-> {},
     scheduled |-> <<>>, available_entities |-> FALSE,
     configured_entities |-> FALSE, entity_attributes |-> DefaultAttributes,
     device_state |-> DISCONNECTED, started |-> FALSE,
     op |-> "import", ids |-> <<>>, handled |-> None, raised |-> ""]

\* no call of _media_player_cmd_handler has been made.
\*   pc       "idle", or "request" while the handler awaits self._client
\*   cmd_id   the command of the latest call
\*   result   the status code the latest call returned ("" until it returns)
CommandIdle == [pc |-> "idle", cmd_id |-> "", result |-> ""]

\* a step of the device alone: driver.py and the command handler do not run
DeviceOnly == UNCHANGED <<driver, command>>

Init ==
    /\ connection_state = DISCONNECTED
    /\ connection_task = None
    /\ media_player_attributes = DefaultAttributes
    /\ tasks = <<>>
    /\ events = <<>>
    /\ last_op = "init"
    /\ call = [fn |-> "none"]
    /\ driver = DriverIdle
    /\ command = CommandIdle

Max(a, b) == IF a >= b THEN a ELSE b
Min(a, b) == IF a <= b THEN a ELSE b

\* faulty variant: the backoff is not capped
raw_backoff_uncapped(connection_attempt) == connection_attempt * BACKOFF_SEC

\* line 361: min(connection_attempt * BACKOFF_SEC, BACKOFF_MAX), in seconds
raw_backoff(connection_attempt) == Min(connection_attempt * BACKOFF_SEC, BACKOFF_MAX)

\* faulty variant: the delay has no floor
backoff_delay_without_floor(connection_attempt, duration) ==
    raw_backoff(connection_attempt) * 10 - duration

\* line 361: max(min(...) - duration, 0.1), in tenths of a second; duration
\* is the elapsed time of the failed request, in tenths of a second
backoff_delay(connection_attempt, duration) ==
    Max(raw_backoff(connection_attempt) * 10 - duration, 1)

\* faulty variant: connect() without the `is None` test
connect_unguarded ==
    /\ tasks' = Append(tasks, NewTask)
    /\ connection_task' = Some(Len(tasks) + 1)
    /\ last_op' = "connect"
    /\ UNCHANGED <<connection_state, media_player_attributes, events, call>>

(***************************************************************************)
(* DuneHDDevice.connect                                                    *)
(***************************************************************************)
connect ==
    /\ IF connection_task = None
       THEN /\ tasks' = Append(tasks, NewTask)
            /\ connection_task' = Some(Len(tasks) + 1)
       ELSE UNCHANGED <<tasks, connection_task>>
    /\ last_op' = "connect"
    /\ UNCHANGED <<connection_state, media_player_attributes, events, call>>

\* faulty variant: disconnect() emits and forces the state outside the `if`
disconnect_emits_always ==
    /\ IF connection_task # None
       THEN /\ tasks' = [tasks EXCEPT ![connection_task[1]] =
                           [@ EXCEPT !.must_cancel = TRUE,
                                     !.cancelled_in = tasks[connection_task[1]].pc]]
            /\ connection_task' = None
       ELSE UNCHANGED <<tasks, connection_task>>
    /\ connection_state' = DISCONNECTED
    /\ events' = emit(events, DISCONNECTED_EVENT, <<>>, DISCONNECTED)
    /\ last_op' = "disconnect"
    /\ UNCHANGED <<media_player_attributes, call>>

\* faulty variant: disconnect() drops the task handle without cancelling the task
disconnect_without_cancel ==
    /\ IF connection_task # None
       THEN /\ connection_task' = None
            /\ connection_state' = DISCONNECTED
            /\ events' = emit(events, DISCONNECTED_EVENT, <<>>, DISCONNECTED)
       ELSE UNCHANGED <<connection_task, connection_state, events>>
    /\ last_op' = "disconnect"
    /\ UNCHANGED <<tasks, media_player_attributes, call>>

\* faulty variant: disconnect() leaves the connection state as it was
disconnect_keeps_state ==
    /\ IF connection_task # None
       THEN /\ tasks' = [tasks EXCEPT ![connection_task[1]] =
                           [@ EXCEPT !.must_cancel = TRUE,
                                     !.cancelled_in = tasks[connection_task[1]].pc]]
            /\ connection_task' = None
            /\ events' = emit(events, DISCONNECTED_EVENT, <<>>, connection_state)
            /\ UNCHANGED connection_state
       ELSE UNCHANGED <<tasks, connection_task, connection_state, events>>
    /\ last_op' = "disconnect"
    /\ UNCHANGED <<media_player_attributes, call>>

\* faulty variant: disconnect() also puts the initial attributes back
disconnect_resets_snapshot ==
    /\ IF connection_task # None
       THEN /\ tasks' = [tasks EXCEPT ![connection_task[1]] =
                           [@ EXCEPT !.must_cancel = TRUE,
                                     !.cancelled_in = tasks[connection_task[1]].pc]]
            /\ connection_task' = None
            /\ connection_state' = DISCONNECTED
            /\ events' = emit(events, DISCONNECTED_EVENT, <<>>, DISCONNECTED)
            /\ media_player_attributes' = DefaultAttributes
       ELSE UNCHANGED <<tasks, connection_task, connection_state, events,
                        media_player_attributes>>
    /\ last_op' = "disconnect"
    /\ UNCHANGED call

(***************************************************************************)
(* DuneHDDevice.disconnect                                                 *)
(***************************************************************************)
disconnect ==
    /\ IF connection_task # None
       THEN /\ tasks' = [tasks EXCEPT ![connection_task[1]] =
                           [@ EXCEPT !.must_cancel = TRUE,
                                     !.cancelled_in = tasks[connection_task[1]].pc]]
            /\ connection_task' = None
            /\ connection_state' = DISCONNECTED
            /\ events' = emit(events, DISCONNECTED_EVENT, <<>>, DISCONNECTED)
       ELSE UNCHANGED <<tasks, connection_task, connection_state, events>>
    /\ last_op' = "disconnect"
    /\ UNCHANGED <<media_player_attributes, call>>

(***************************************************************************)
(* Replies of the player to the ui_state command that the poll loop is     *)
(* driven with, and the elapsed times of a failed request (tenths of a     *)
(* second).                                                                *)
(***************************************************************************)
NavigatorStatus ==
    [player_state |-> "navigator", playback_state |-> None,
     playback_is_buffering |-> None, playback_duration |-> None,
     playback_position |-> None, playback_caption |-> None,
     playback_picture |-> None, playback_volume |-> 10, playback_mute |-> FALSE,
     ui_state |-> UiTuple]

PlaybackStatus(playback_state, picture) ==
    [NavigatorStatus EXCEPT !.player_state = "file_playback",
                            !.playback_state = Some(playback_state),
                            !.playback_duration = Some(90),
                            !.playback_caption = Some("Movie"),
                            !.playback_picture = picture]

PollStatuses ==
    { NavigatorStatus,
      [NavigatorStatus EXCEPT !.playback_volume = 12],
      [NavigatorStatus EXCEPT !.player_state = "standby"],
      PlaybackStatus("playing", Some("/poster.jpg")),
      PlaybackStatus("seeking", Some("/poster.jpg")),
      PlaybackStatus("seeking", None) }

Durations == {0, 50}

\* faulty variant: the loop marks the device connected on entry
connection_enter_connected(t) ==
    /\ tasks[t].pc = "created"
    /\ ~tasks[t].must_cancel
    /\ connection_state' = CONNECTED
    /\ events' = emit(events, CONNECTING_EVENT, <<>>, CONNECTED)
    /\ tasks' = [tasks EXCEPT ![t] = [@ EXCEPT !.pc = "request", !.connection_attempt = 1]]
    /\ last_op' = "enter"
    /\ UNCHANGED <<connection_task, media_player_attributes, call>>

\* faulty variant: the attempt counter starts at 0
connection_enter_attempt_zero(t) ==
    /\ tasks[t].pc = "created"
    /\ ~tasks[t].must_cancel
    /\ connection_state' = CONNECTING
    /\ events' = emit(events, CONNECTING_EVENT, <<>>, CONNECTING)
    /\ tasks' = [tasks EXCEPT ![t] = [@ EXCEPT !.pc = "request", !.connection_attempt = 0]]
    /\ last_op' = "enter"
    /\ UNCHANGED <<connection_task, media_player_attributes, call>>

(***************************************************************************)
(* DuneHDDevice._connection, lines 320-332: the task runs for the first    *)
(* time, up to its first `await client.ui_state()`.                        *)
(***************************************************************************)
connection_enter(t) ==
    /\ tasks[t].pc = "created"
    /\ ~tasks[t].must_cancel
    /\ connection_state' = CONNECTING
    /\ events' = emit(events, CONNECTING_EVENT, <<>>, CONNECTING)
    /\ tasks' = [tasks EXCEPT ![t] = [@ EXCEPT !.pc = "request", !.connection_attempt = 1]]
    /\ last_op' = "enter"
    /\ UNCHANGED <<connection_task, media_player_attributes, call>>

\* faulty variant: a lost connection emits Connecting without Disconnected
connection_except_no_disconnected(t, duration) ==
    LET was_connecting == connection_state = CONNECTING
        attempt == IF was_connecting THEN tasks[t].connection_attempt + 1 ELSE 1
        delay == backoff_delay(attempt, duration)
    IN  /\ connection_state' = CONNECTING
        /\ events' = IF was_connecting THEN events
                     ELSE emit(events, CONNECTING_EVENT, <<>>, CONNECTING)
        /\ tasks' = [tasks EXCEPT ![t] =
                       [@ EXCEPT !.pc = "sleep", !.connection_attempt = attempt,
                                 !.delay = delay, !.duration = duration,
                                 !.last_poll = "failed", !.failures = @ + 1,
                                 !.response_arrived = FALSE]]
        /\ last_op' = "poll_failed"
        /\ UNCHANGED <<connection_task, media_player_attributes, call>>

\* faulty variant: a lost connection emits Connecting before Disconnected
connection_except_connecting_first(t, duration) ==
    LET was_connecting == connection_state = CONNECTING
        attempt == IF was_connecting THEN tasks[t].connection_attempt + 1 ELSE 1
        delay == backoff_delay(attempt, duration)
    IN  /\ connection_state' = CONNECTING
        /\ events' = IF was_connecting THEN events
                     ELSE emit(emit(events, CONNECTING_EVENT, <<>>, connection_state),
                               DISCONNECTED_EVENT, <<>>, connection_state)
        /\ tasks' = [tasks EXCEPT ![t] =
                       [@ EXCEPT !.pc = "sleep", !.connection_attempt = attempt,
                                 !.delay = delay, !.duration = duration,
                                 !.last_poll = "failed", !.failures = @ + 1,
                                 !.response_arrived = FALSE]]
        /\ last_op' = "poll_failed"
        /\ UNCHANGED <<connection_task, media_player_attributes, call>>

\* faulty variant: a lost connection does not reset the attempt counter
connection_except_keeps_attempt(t, duration) ==
    LET was_connecting == connection_state = CONNECTING
        attempt == tasks[t].connection_attempt + 1
        delay == backoff_delay(attempt, duration)
    IN  /\ connection_state' = CONNECTING
        /\ events' = IF was_connecting THEN events
                     ELSE emit(emit(events, DISCONNECTED_EVENT, <<>>, connection_state),
                               CONNECTING_EVENT, <<>>, CONNECTING)
        /\ tasks' = [tasks EXCEPT ![t] =
                       [@ EXCEPT !.pc = "sleep", !.connection_attempt = attempt,
                                 !.delay = delay, !.duration = duration,
                                 !.last_poll = "failed", !.failures = @ + 1,
                                 !.response_arrived = FALSE]]
        /\ last_op' = "poll_failed"
        /\ UNCHANGED <<connection_task, media_player_attributes, call>>

\* faulty variant: a failed poll ends the loop
connection_except_ends_loop(t, duration) ==
    LET was_connecting == connection_state = CONNECTING
        attempt == IF was_connecting THEN tasks[t].connection_attempt + 1 ELSE 1
        delay == backoff_delay(attempt, duration)
    IN  /\ connection_state' = CONNECTING
        /\ events' = IF was_connecting THEN events
                     ELSE emit(emit(events, DISCONNECTED_EVENT, <<>>, connection_state),
                               CONNECTING_EVENT, <<>>, CONNECTING)
        /\ tasks' = [tasks EXCEPT ![t] =
                       [@ EXCEPT !.pc = "done", !.connection_attempt = attempt,
                                 !.delay = delay, !.duration = duration,
                                 !.last_poll = "failed", !.failures = @ + 1,
                                 !.response_arrived = FALSE]]
        /\ last_op' = "poll_failed"
        /\ UNCHANGED <<connection_task, media_player_attributes, call>>

\* faulty variant: a failed poll while connecting emits Connecting again
connection_except_reemits_connecting(t, duration) ==
    LET was_connecting == connection_state = CONNECTING
        attempt == IF was_connecting THEN tasks[t].connection_attempt + 1 ELSE 1
        delay == backoff_delay(attempt, duration)
    IN  /\ connection_state' = CONNECTING
        /\ events' = IF was_connecting THEN emit(events, CONNECTING_EVENT, <<>>, CONNECTING)
                     ELSE emit(emit(events, DISCONNECTED_EVENT, <<>>, connection_state),
                               CONNECTING_EVENT, <<>>, CONNECTING)
        /\ tasks' = [tasks EXCEPT ![t] =
                       [@ EXCEPT !.pc = "sleep", !.connection_attempt = attempt,
                                 !.delay = delay, !.duration = duration,
                                 !.last_poll = "failed", !.failures = @ + 1,
                                 !.response_arrived = FALSE]]
        /\ last_op' = "poll_failed"
        /\ UNCHANGED <<connection_task, media_player_attributes, call>>

\* faulty variant: a failed poll leaves the connection state as it was
connection_except_stays_connected(t, duration) ==
    LET was_connecting == connection_state = CONNECTING
        attempt == IF was_connecting THEN tasks[t].connection_attempt + 1 ELSE 1
        delay == backoff_delay(attempt, duration)
    IN  /\ UNCHANGED connection_state
        /\ events' = IF was_connecting THEN events
                     ELSE emit(emit(events, DISCONNECTED_EVENT, <<>>, connection_state),
                               CONNECTING_EVENT, <<>>, connection_state)
        /\ tasks' = [tasks EXCEPT ![t] =
                       [@ EXCEPT !.pc = "sleep", !.connection_attempt = attempt,
                                 !.delay = delay, !.duration = duration,
                                 !.last_poll = "failed", !.failures = @ + 1,
                                 !.response_arrived = FALSE]]
        /\ last_op' = "poll_failed"
        /\ UNCHANGED <<connection_task, media_player_attributes, call>>

(***************************************************************************)
(* lines 349-363: the `except Exception` branch, then the sleep.           *)
(* duration is time.time() - start.                                        *)
(***************************************************************************)
connection_except(t, duration) ==
    LET was_connecting == connection_state = CONNECTING
        attempt == IF was_connecting THEN tasks[t].connection_attempt + 1 ELSE 1
        delay == backoff_delay(attempt, duration)
    IN  /\ connection_state' = CONNECTING
        /\ events' = IF was_connecting THEN events
                     ELSE emit(emit(events, DISCONNECTED_EVENT, <<>>, connection_state),
                               CONNECTING_EVENT, <<>>, CONNECTING)
        /\ tasks' = [tasks EXCEPT ![t] =
                       [@ EXCEPT !.pc = "sleep", !.connection_attempt = attempt,
                                 !.delay = delay, !.duration = duration,
                                 !.last_poll = "failed", !.failures = @ + 1,
                                 !.response_arrived = FALSE]]
        /\ last_op' = "poll_failed"
        /\ UNCHANGED <<connection_task, media_player_attributes, call>>

\* faulty variant: the Connected event carries the changed attributes only
connection_try_connected_with_diff(t, status) ==
    LET attrs == attributes_for_status(status, media_player_attributes)
        changed_attrs == filter_changed_attributes(Some(media_player_attributes), attrs)
    IN  /\ IF connection_state = CONNECTING
           THEN /\ connection_state' = CONNECTED
                /\ events' = emit(events, CONNECTED_EVENT, <<changed_attrs>>, CONNECTED)
           ELSE /\ UNCHANGED connection_state
                /\ events' = IF DOMAIN changed_attrs # {}
                             THEN emit(events, UPDATE_EVENT, <<changed_attrs>>, CONNECTED)
                             ELSE events
        /\ media_player_attributes' = attrs
        /\ tasks' = [tasks EXCEPT ![t] =
                       [@ EXCEPT !.pc = "sleep", !.delay = POLL_INTERVAL * 10,
                                 !.last_poll = "ok", !.failures = 0,
                                 !.response_arrived = FALSE]]
        /\ last_op' = "poll_ok"
        /\ UNCHANGED <<connection_task, call>>

\* faulty variant: the Update event carries the whole snapshot
connection_try_update_with_all(t, status) ==
    LET attrs == attributes_for_status(status, media_player_attributes)
        changed_attrs == filter_changed_attributes(Some(media_player_attributes), attrs)
    IN  /\ IF connection_state = CONNECTING
           THEN /\ connection_state' = CONNECTED
                /\ events' = emit(events, CONNECTED_EVENT, <<attrs>>, CONNECTED)
           ELSE /\ UNCHANGED connection_state
                /\ events' = IF DOMAIN changed_attrs # {}
                             THEN emit(events, UPDATE_EVENT, <<attrs>>, CONNECTED)
                             ELSE events
        /\ media_player_attributes' = attrs
        /\ tasks' = [tasks EXCEPT ![t] =
                       [@ EXCEPT !.pc = "sleep", !.delay = POLL_INTERVAL * 10,
                                 !.last_poll = "ok", !.failures = 0,
                                 !.response_arrived = FALSE]]
        /\ last_op' = "poll_ok"
        /\ UNCHANGED <<connection_task, call>>

\* faulty variant: while connected the loop stores the changed attributes only
connection_try_stores_diff(t, status) ==
    LET attrs == attributes_for_status(status, media_player_attributes)
        changed_attrs == filter_changed_attributes(Some(media_player_attributes), attrs)
    IN  /\ IF connection_state = CONNECTING
           THEN /\ connection_state' = CONNECTED
                /\ events' = emit(events, CONNECTED_EVENT, <<attrs>>, CONNECTED)
                /\ media_player_attributes' = attrs
           ELSE /\ UNCHANGED connection_state
                /\ events' = IF DOMAIN changed_attrs # {}
                             THEN emit(events, UPDATE_EVENT, <<changed_attrs>>, CONNECTED)
                             ELSE events
                /\ media_player_attributes' = changed_attrs
        /\ tasks' = [tasks EXCEPT ![t] =
                       [@ EXCEPT !.pc = "sleep", !.delay = POLL_INTERVAL * 10,
                                 !.last_poll = "ok", !.failures = 0,
                                 !.response_arrived = FALSE]]
        /\ last_op' = "poll_ok"
        /\ UNCHANGED <<connection_task, call>>

\* faulty variant: the first successful poll does not connect
connection_try_stays_connecting(t, status) ==
    LET attrs == attributes_for_status(status, media_player_attributes)
        changed_attrs == filter_changed_attributes(Some(media_player_attributes), attrs)
    IN  /\ IF connection_state = CONNECTING
           THEN UNCHANGED <<connection_state, events>>
           ELSE /\ UNCHANGED connection_state
                /\ events' = IF DOMAIN changed_attrs # {}
                             THEN emit(events, UPDATE_EVENT, <<changed_attrs>>, CONNECTED)
                             ELSE events
        /\ media_player_attributes' = attrs
        /\ tasks' = [tasks EXCEPT ![t] =
                       [@ EXCEPT !.pc = "sleep", !.delay = POLL_INTERVAL * 10,
                                 !.last_poll = "ok", !.failures = 0,
                                 !.response_arrived = FALSE]]
        /\ last_op' = "poll_ok"
        /\ UNCHANGED <<connection_task, call>>

(***************************************************************************)
(* lines 333-346: the rest of the `try` body once ui_state() has returned  *)
(* status and the mapper has not raised, then the sleep.                   *)
(***************************************************************************)
connection_try(t, status) ==
    LET attrs == attributes_for_status(status, media_player_attributes)
        changed_attrs == filter_changed_attributes(Some(media_player_attributes), attrs)
    IN  /\ IF connection_state = CONNECTING
           THEN /\ connection_state' = CONNECTED
                /\ events' = emit(events, CONNECTED_EVENT, <<attrs>>, CONNECTED)
           ELSE /\ UNCHANGED connection_state
                /\ events' = IF DOMAIN changed_attrs # {}
                             THEN emit(events, UPDATE_EVENT, <<changed_attrs>>, CONNECTED)
                             ELSE events
        /\ media_player_attributes' = attrs
        /\ tasks' = [tasks EXCEPT ![t] =
                       [@ EXCEPT !.pc = "sleep", !.delay = POLL_INTERVAL * 10,
                                 !.last_poll = "ok", !.failures = 0,
                                 !.response_arrived = FALSE]]
        /\ last_op' = "poll_ok"
        /\ UNCHANGED <<connection_task, call>>

\* line 332, `await client.ui_state()`: the reply of the player has been
\* read, so the awaited future is done and the task will resume at its next
\* turn; a request that was cancelled before gets no reply
connection_response_arrived(t) ==
    /\ tasks[t].pc = "request"
    /\ ~tasks[t].must_cancel
    /\ ~tasks[t].response_arrived
    /\ tasks' = [tasks EXCEPT ![t] = [@ EXCEPT !.response_arrived = TRUE]]
    /\ last_op' = "response"
    /\ UNCHANGED <<connection_state, connection_task, media_player_attributes, events, call>>

\* faulty variant: a task resumes with the reply although it was cancelled
connection_poll_reply_ignores_cancel(t) ==
    /\ tasks[t].pc = "request"
    /\ \E status \in PollStatuses, duration \in Durations :
          IF attributes_for_status_raises(status)
          THEN connection_except(t, duration)
          ELSE connection_try(t, status)

\* the request returns a status: lines 332-346, or 349-363 when the mapper raises
connection_poll_reply(t) ==
    /\ tasks[t].pc = "request"
    /\ ~tasks[t].must_cancel
    /\ \E status \in PollStatuses, duration \in Durations :
          IF attributes_for_status_raises(status)
          THEN connection_except(t, duration)
          ELSE connection_try(t, status)

\* the request raises (transport error, timeout, HTTP status, invalid reply)
connection_poll_error(t) ==
    /\ tasks[t].pc = "request"
    /\ ~tasks[t].must_cancel
    /\ \E duration \in Durations : connection_except(t, duration)

\* line 363 returns: the sleep is over, back to line 329-332
connection_wake(t) ==
    /\ tasks[t].pc = "sleep"
    /\ ~tasks[t].must_cancel
    /\ tasks' = [tasks EXCEPT ![t] =
                   [@ EXCEPT !.pc = "request", !.delay = 0, !.duration = 0]]
    /\ last_op' = "wake"
    /\ UNCHANGED <<connection_state, connection_task, media_player_attributes, events, call>>

\* faulty variant: the CancelledError of a running loop is handled by the
\* `except Exception` branch (lines 349-363) and the loop goes on
connection_cancelled_as_failure(t) ==
    /\ tasks[t].pc \in {"created", "request", "sleep"}
    /\ tasks[t].must_cancel
    /\ IF tasks[t].pc = "created"
       THEN /\ tasks' = [tasks EXCEPT ![t] =
                           [@ EXCEPT !.pc = "done", !.must_cancel = FALSE, !.delay = 0,
                                     !.duration = 0]]
            /\ last_op' = "cancelled"
            /\ UNCHANGED <<connection_state, connection_task, media_player_attributes,
                           events, call>>
       ELSE \E duration \in Durations : connection_except(t, duration)

(***************************************************************************)
(* The event loop delivers the CancelledError: before the first statement  *)
(* of a task that never ran, else at its await; lines 347-348 re-raise it, *)
(* the `async with` closes the client and the task ends.                   *)
(***************************************************************************)
connection_cancelled(t) ==
    /\ tasks[t].pc \in {"created", "request", "sleep"}
    /\ tasks[t].must_cancel
    /\ tasks' = [tasks EXCEPT ![t] =
                   [@ EXCEPT !.pc = "done", !.must_cancel = FALSE, !.delay = 0,
                             !.duration = 0]]
    /\ last_op' = "cancelled"
    /\ UNCHANGED <<connection_state, connection_task, media_player_attributes, events, call>>

\* the bounds of the model: tasks created, events logged, attempts counted
WithinBounds ==
    /\ Len(tasks') <= MaxTasks
    /\ Len(events') <= MaxEvents
    /\ \A t \in 1..Len(tasks') : tasks'[t].connection_attempt <= MaxAttempt

Next ==
    \/ connect /\ WithinBounds /\ DeviceOnly
    \/ disconnect /\ WithinBounds /\ DeviceOnly
    \/ \E t \in 1..Len(tasks) : connection_enter(t) /\ WithinBounds /\ DeviceOnly
    \/ \E t \in 1..Len(tasks) : connection_poll_reply(t) /\ WithinBounds /\ DeviceOnly
    \/ \E t \in 1..Len(tasks) : connection_poll_error(t) /\ WithinBounds /\ DeviceOnly
    \/ \E t \in 1..Len(tasks) : connection_wake(t) /\ WithinBounds /\ DeviceOnly
    \/ \E t \in 1..Len(tasks) : connection_cancelled(t) /\ WithinBounds /\ DeviceOnly

Spec == Init /\ [][Next]_vars

(***************************************************************************)
(* The device with the arrival of a reply as a step of its own: between    *)
(* the arrival and the resumption of the loop, connect() and disconnect()  *)
(* can run.                                                                *)
(***************************************************************************)
NextInFlight ==
    \/ connect /\ WithinBounds /\ DeviceOnly
    \/ disconnect /\ WithinBounds /\ DeviceOnly
    \/ \E t \in 1..Len(tasks) : connection_enter(t) /\ WithinBounds /\ DeviceOnly
    \/ \E t \in 1..Len(tasks) : connection_response_arrived(t) /\ WithinBounds /\ DeviceOnly
    \/ \E t \in 1..Len(tasks) : connection_poll_reply(t) /\ WithinBounds /\ DeviceOnly
    \/ \E t \in 1..Len(tasks) : connection_poll_error(t) /\ WithinBounds /\ DeviceOnly
    \/ \E t \in 1..Len(tasks) : connection_wake(t) /\ WithinBounds /\ DeviceOnly
    \/ \E t \in 1..Len(tasks) : connection_cancelled(t) /\ WithinBounds /\ DeviceOnly

SpecInFlight == Init /\ [][NextInFlight]_vars

(***************************************************************************)
(* The pure methods called on their own: one call per behaviour, its       *)
(* arguments drawn from the sets below.                                    *)
(***************************************************************************)
\* attribute snapshots as _attributes_for_status builds them
Snapshots ==
    [state : {"UNAVAILABLE", "ON", "PLAYING"},
     media_type : {"", "VIDEO"},
     media_duration : {0, 90},
     media_position : {0, 30},
     media_title : {"", "Movie"},
     media_image_url : {EMPTY_IMAGE, get_file_url("/poster.jpg")},
     volume : {10, 12},
     muted : BOOLEAN]

\* the states a stored snapshot can hold: the default and what the mapper sets
StoredStates == {"UNAVAILABLE", "OFF", "BUFFERING", "PLAYING", "PAUSED", "ON"}

\* replies of the player: every combination of the fields the mapper reads
Statuses ==
    [player_state : {"standby", "navigator", "file_playback"},
     playback_state : {None, Some("initializing"), Some("playing"), Some("paused"),
                       Some("seeking"), Some("stopped")},
     playback_is_buffering : {None, Some(FALSE), Some(TRUE)},
     playback_duration : {None, Some(0), Some(90)},
     playback_position : {None, Some(30)},
     playback_caption : {None, Some(""), Some("Movie")},
     playback_picture : {None, Some("/poster.jpg")},
     playback_volume : {10},
     playback_mute : BOOLEAN,
     ui_state : {UiTuple, UiNull, UiState(None), UiState(Some([bg_url |-> None])),
                 UiState(Some([bg_url |-> Some("/bg.jpg")]))}]

DeviceIdle ==
    /\ connection_state = DISCONNECTED
    /\ connection_task = None
    /\ tasks = <<>>
    /\ events = <<>>
    /\ last_op = "init"
    /\ driver = DriverIdle
    /\ command = CommandIdle

InitFilter ==
    /\ DeviceIdle
    /\ media_player_attributes = DefaultAttributes
    /\ \E old \in {None} \cup {Some(a) : a \in Snapshots}, new \in Snapshots :
          call = [fn |-> "_filter_changed_attributes", old_attributes |-> old,
                  new_attributes |-> new, returned |-> FALSE, result |-> <<>>]

\* the call of _filter_changed_attributes returns
filter_changed_attributes_call ==
    /\ call.fn = "_filter_changed_attributes"
    /\ ~call.returned
    /\ call' = [call EXCEPT !.returned = TRUE,
                            !.result = filter_changed_attributes(call.old_attributes,
                                                                 call.new_attributes)]
    /\ UNCHANGED <<connection_state, connection_task, media_player_attributes, tasks,
                   events, last_op, driver, command>>

NextFilter == filter_changed_attributes_call

SpecFilter == InitFilter /\ [][NextFilter]_vars

InitMapper ==
    /\ DeviceIdle
    /\ \E stored \in StoredStates :
          media_player_attributes = [DefaultAttributes EXCEPT !.state = stored]
    /\ \E status \in Statuses :
          call = [fn |-> "_attributes_for_status", status |-> status,
                  returned |-> FALSE, raised |-> FALSE, state |-> "", result |-> <<>>]

\* the call of _attributes_for_status returns or raises; call.state is
\* attributes[Attributes.STATE] as lines 270-281 set it, before lines 290-297
\* can raise
attributes_for_status_call ==
    /\ call.fn = "_attributes_for_status"
    /\ ~call.returned
    /\ call' = IF attributes_for_status_raises(call.status)
               THEN [call EXCEPT !.returned = TRUE, !.raised = TRUE,
                                 !.state = state_for_status(call.status,
                                                            media_player_attributes)]
               ELSE [call EXCEPT !.returned = TRUE,
                                 !.state = state_for_status(call.status,
                                                            media_player_attributes),
                                 !.result = attributes_for_status(call.status,
                                                                  media_player_attributes)]
    /\ UNCHANGED <<connection_state, connection_task, media_player_attributes, tasks,
                   events, last_op, driver, command>>

NextMapper == attributes_for_status_call

SpecMapper == InitMapper /\ [][NextMapper]_vars

(***************************************************************************)
(* The poll loop of a device on which disconnect() is never called:        *)
(* connect() and the steps of _connection, with the attempt                *)
(* counter explored far enough for the backoff to reach BACKOFF_MAX.       *)
(***************************************************************************)
WithinBackoffBounds ==
    /\ Len(events') <= MaxBackoffEvents
    /\ \A t \in 1..Len(tasks') : tasks'[t].connection_attempt <= MaxBackoffAttempt

NextBackoff ==
    \/ connect /\ WithinBackoffBounds /\ DeviceOnly
    \/ \E t \in 1..Len(tasks) : connection_enter(t) /\ WithinBackoffBounds /\ DeviceOnly
    \/ \E t \in 1..Len(tasks) : connection_poll_reply(t) /\ WithinBackoffBounds /\ DeviceOnly
    \/ \E t \in 1..Len(tasks) : connection_poll_error(t) /\ WithinBackoffBounds /\ DeviceOnly
    \/ \E t \in 1..Len(tasks) : connection_wake(t) /\ WithinBackoffBounds /\ DeviceOnly

SpecBackoff == Init /\ [][NextBackoff]_vars

(***************************************************************************)
(* The same loop under the scheduling of the event loop: a created task is *)
(* run, a sleep ends (weak fairness), and a request that is issued again   *)
(* and again eventually succeeds (strong fairness), which is the case when *)
(* from some point on every request succeeds.                              *)
(***************************************************************************)
PollSucceeds ==
    \E t \in 1..Len(tasks) :
        connection_poll_reply(t) /\ last_op' = "poll_ok" /\ WithinBackoffBounds /\ DeviceOnly

LoopEntered == \E t \in 1..Len(tasks) : connection_enter(t) /\ WithinBackoffBounds /\ DeviceOnly

SleepEnds == \E t \in 1..Len(tasks) : connection_wake(t) /\ WithinBackoffBounds /\ DeviceOnly

SpecLive ==
    /\ Init /\ [][NextBackoff]_vars
    /\ WF_vars(LoopEntered)
    /\ WF_vars(SleepEnds)
    /\ SF_vars(PollSucceeds)

(***************************************************************************)
(* The media-player command handler (device.py, _media_player_cmd_handler) *)
(* beside the poll loop.  The handler sends through self._client, the      *)
(* dunehd.Client made in __init__; the loop sends through the client it    *)
(* makes for itself each time it is entered.  Each client has its own      *)
(* session and connector.                                                  *)
(***************************************************************************)
\* the command ids followed: two that have a branch in the handler (every
\* branch is `status = await self._client.<method>(...)`) and one that has none
CmdIds == {"play_pause", "seek", "not_a_command"}

\* cmd_id has a branch in the if / elif chain
cmd_has_branch(cmd_id) == cmd_id \in {"play_pause", "seek"}

\* the dunehd.Status values a command can answer with
CommandReplies ==
    [command_status : {"ok", "timeout"}, error_kind : {""}]
        \cup [command_status : {"failed"},
              error_kind : {"invalid_parameters", "unknown_command", "illegal_state",
                            "internal_error", "operation_failed"}]

\* the status code the handler returns for the reply status
status_code_for(status) ==
    IF status.command_status = "failed"
    THEN IF status.error_kind = "invalid_parameters" THEN "BAD_REQUEST"
         ELSE IF status.error_kind = "unknown_command" THEN "NOT_IMPLEMENTED"
         ELSE IF status.error_kind = "illegal_state" THEN "CONFLICT"
         ELSE "SERVER_ERROR"
    ELSE IF status.command_status = "timeout" THEN "TIMEOUT"
    ELSE "OK"

\* the hub calls the handler: it runs up to `await self._client.<method>()`,
\* or returns NOT_IMPLEMENTED if cmd_id has no branch
media_player_cmd_handler(cmd_id) ==
    /\ command.pc = "idle"
    /\ command' = IF cmd_has_branch(cmd_id)
                  THEN [pc |-> "request", cmd_id |-> cmd_id, result |-> ""]
                  ELSE [pc |-> "idle", cmd_id |-> cmd_id, result |-> "NOT_IMPLEMENTED"]
    /\ UNCHANGED <<connection_state, connection_task, media_player_attributes, tasks,
                   events, last_op, call, driver>>

\* the awaited request returns a status
media_player_cmd_reply(status) ==
    /\ command.pc = "request"
    /\ command' = [command EXCEPT !.pc = "idle", !.result = status_code_for(status)]
    /\ UNCHANGED <<connection_state, connection_task, media_player_attributes, tasks,
                   events, last_op, call, driver>>

\* the awaited request raises
media_player_cmd_error ==
    /\ command.pc = "request"
    /\ command' = [command EXCEPT !.pc = "idle", !.result = "SERVER_ERROR"]
    /\ UNCHANGED <<connection_state, connection_task, media_player_attributes, tasks,
                   events, last_op, call, driver>>

NextCommand ==
    \/ connect /\ WithinBounds /\ DeviceOnly
    \/ disconnect /\ WithinBounds /\ DeviceOnly
    \/ \E t \in 1..Len(tasks) : connection_enter(t) /\ WithinBounds /\ DeviceOnly
    \/ \E t \in 1..Len(tasks) : connection_poll_reply(t) /\ WithinBounds /\ DeviceOnly
    \/ \E t \in 1..Len(tasks) : connection_poll_error(t) /\ WithinBounds /\ DeviceOnly
    \/ \E t \in 1..Len(tasks) : connection_wake(t) /\ WithinBounds /\ DeviceOnly
    \/ \E t \in 1..Len(tasks) : connection_cancelled(t) /\ WithinBounds /\ DeviceOnly
    \/ \E cmd_id \in CmdIds : media_player_cmd_handler(cmd_id) /\ WithinBounds
    \/ \E status \in CommandReplies : media_player_cmd_reply(status) /\ WithinBounds
    \/ media_player_cmd_error /\ WithinBounds

SpecCommand == Init /\ [][NextCommand]_vars

(***************************************************************************)
(* driver.py: the handlers of the hub's events, of the configuration's     *)
(* changes and of the device's events, for one configured device.          *)
(*                                                                         *)
(*  - _configured_devices maps the identifier to one DuneHDDevice object;  *)
(*    no statement of driver.py deletes a key, so at most one object is    *)
(*    ever made and the device variables above are that object's fields.   *)
(*  - device.events is a pyee AsyncIOEventEmitter and every listener is a  *)
(*    coroutine function: emit makes a task for each listener registered   *)
(*    for the type at that moment, and the tasks run later in that order.  *)
(*    A device step taken beside the driver is therefore the step of       *)
(*    device.py together with device_step, which queues those tasks.       *)
(*  - The hub library keeps the two entity tables; before it raises        *)
(*    SUBSCRIBE_ENTITIES it puts the available entities named into the     *)
(*    configured table, and before UNSUBSCRIBE_ENTITIES it takes them out. *)
(*    update_attributes on a table without the entity does nothing.        *)
(*  - The awaits of api.set_device_state are not followed as suspension    *)
(*    points: each handler is one step.                                    *)
(***************************************************************************)
MaxDriverTasks == 2
MaxDriverEvents == 3

\* the listeners _configure_new_device registers on a new device object
DriverListeners == {CONNECTED_EVENT, DISCONNECTED_EVENT, "EVENTS.ERROR", UPDATE_EVENT}

\* the entity id lists the hub subscribes and unsubscribes with: the device's
\* id alone, an id the driver does not know, and both
EntityIdLists == {<<Identifier>>, <<"other">>, <<"other", Identifier>>}

in_ids(ids) == \E i \in 1..Len(ids) : ids[i] = Identifier

\* the device's fields are left as they are
DeviceUntouched ==
    UNCHANGED <<connection_state, connection_task, media_player_attributes, tasks,
                events, last_op, call>>

\* the handler tasks after this step, each named by the index of its event
\* in `events`: emit queues one for each event emitted in the step whose type
\* has a listener in `listeners`
scheduled_after(listeners) ==
    LET heard(i) == events'[i].type \in listeners
        emitted == [k \in 1..(Len(events') - Len(events)) |-> Len(events) + k]
    IN  driver.scheduled \o SelectSeq(emitted, heard)

\* a step of the device (loop step) beside the driver
device_step ==
    /\ driver' = [driver EXCEPT !.scheduled = scheduled_after(driver.listeners)]
    /\ UNCHANGED command

\* entity.attributes after Entities.update_attributes(identifier, attributes)
update_attributes(entity_attributes, attributes) ==
    [key \in DOMAIN entity_attributes |->
        IF key \in DOMAIN attributes THEN attributes[key] ELSE entity_attributes[key]]

\* history: the driver record d after handler op has run with entity ids
\* `ids` and ended by raising `raised` ("" if it returned)
ran(d, op, ids, raised) == [d EXCEPT !.op = op, !.ids = ids, !.raised = raised]

\* _configure_new_device(device, connect), its calls of the device: as its
\* callers use it, for a device that is already configured only with
\* connect = False (on_device_added); main and on_subscribe_entities reach it
\* only for a device that is not configured when the configuration holds
\* each identifier once
configure_new_device(do_connect) ==
    /\ driver.configured_devices => ~do_connect
    /\ IF driver.configured_devices THEN disconnect
       ELSE IF do_connect THEN connect
       ELSE DeviceUntouched

\* _configure_new_device and _register_available_entities, the driver's
\* state after them
driver_configured ==
    [driver EXCEPT
        !.configured_devices = TRUE,
        !.listeners = IF driver.configured_devices THEN @ ELSE DriverListeners,
        !.scheduled = scheduled_after(driver.listeners),
        !.available_entities = TRUE]

\* _remove_device(device), its calls of the device
remove_device == disconnect

\* _remove_device(device), the driver's state after it: the listeners are
\* removed before disconnect() emits, the entity leaves both tables, and
\* _configured_devices keeps the object
driver_removed ==
    [driver EXCEPT
        !.listeners = {},
        !.scheduled = scheduled_after({}),
        !.configured_entities = FALSE,
        !.available_entities = FALSE]

\* main(): config.devices is loaded and every device in it is configured
main ==
    /\ ~driver.started
    /\ IF driver.config
       THEN /\ configure_new_device(TRUE)
            /\ driver' = ran([driver_configured EXCEPT !.started = TRUE], "main", <<>>, "")
       ELSE /\ DeviceUntouched
            /\ driver' = ran([driver EXCEPT !.started = TRUE], "main", <<>>, "")
    /\ UNCHANGED command

\* config.devices.add(device) of the setup flow, which calls on_device_added
on_device_added ==
    /\ driver.started
    /\ ~driver.config
    /\ configure_new_device(FALSE)
    /\ driver' = ran([driver_configured EXCEPT !.config = TRUE], "on_device_added", <<>>, "")
    /\ UNCHANGED command

\* config.devices.remove(identifier), which calls on_device_removed(device),
\* and config.devices.clear(), which calls on_device_removed(None)
on_device_removed(all) ==
    /\ driver.started
    /\ driver.config \/ all
    /\ IF driver.configured_devices
       THEN /\ remove_device
            /\ driver' = ran([driver_removed EXCEPT !.config = FALSE],
                             "on_device_removed", <<>>, "")
       ELSE /\ DeviceUntouched
            /\ driver' = ran([driver EXCEPT
                                 !.config = FALSE,
                                 !.configured_entities = IF all THEN FALSE ELSE @,
                                 !.available_entities = IF all THEN FALSE ELSE @],
                             "on_device_removed", <<>>, "")
    /\ UNCHANGED command

\* the hub's connect command: every configured device is connected
on_r2_connect_cmd ==
    /\ driver.started
    /\ IF driver.configured_devices THEN connect ELSE DeviceUntouched
    /\ driver' = ran([driver EXCEPT !.device_state = CONNECTED],
                     "on_r2_connect_cmd", <<>>, "")
    /\ UNCHANGED command

\* the hub's disconnect command: every configured device is disconnected
on_r2_disconnect_cmd ==
    /\ driver.started
    /\ IF driver.configured_devices THEN disconnect ELSE DeviceUntouched
    /\ driver' = ran([driver EXCEPT !.scheduled = scheduled_after(driver.listeners)],
                     "on_r2_disconnect_cmd", <<>>, "")
    /\ UNCHANGED command

\* the hub enters standby: every configured device is disconnected
on_r2_enter_standby ==
    /\ driver.started
    /\ IF driver.configured_devices THEN disconnect ELSE DeviceUntouched
    /\ driver' = ran([driver EXCEPT !.scheduled = scheduled_after(driver.listeners)],
                     "on_r2_enter_standby", <<>>, "")
    /\ UNCHANGED command

\* the hub leaves standby: every configured device is connected
on_r2_exit_standby ==
    /\ driver.started
    /\ IF driver.configured_devices THEN connect ELSE DeviceUntouched
    /\ driver' = ran(driver, "on_r2_exit_standby", <<>>, "")
    /\ UNCHANGED command

\* the hub subscribes to entity_ids.  For the device's id: a configured
\* device gets its snapshot applied to the configured entity and is
\* connected; a device of the configuration that is not configured yet is
\* configured and connected; any other id is logged
on_subscribe_entities(entity_ids) ==
    /\ driver.started
    /\ LET subscribed ==
               [driver EXCEPT !.configured_entities =
                                  @ \/ (in_ids(entity_ids) /\ driver.available_entities)]
       IN  IF in_ids(entity_ids) /\ driver.configured_devices
           THEN /\ connect
                /\ driver' =
                       ran([subscribed EXCEPT !.entity_attributes =
                                IF subscribed.configured_entities
                                THEN update_attributes(@, media_player_attributes)
                                ELSE @],
                           "on_subscribe_entities", entity_ids, "")
           ELSE IF in_ids(entity_ids) /\ driver.config
           THEN /\ configure_new_device(TRUE)
                /\ driver' =
                       ran([driver_configured EXCEPT
                               !.configured_entities = subscribed.configured_entities],
                           "on_subscribe_entities", entity_ids, "")
           ELSE /\ DeviceUntouched
                /\ driver' = ran(subscribed, "on_subscribe_entities", entity_ids, "")
    /\ UNCHANGED command

\* the hub unsubscribes from entity_ids.  For the first id of a configured
\* device the handler evaluates `await device.disconnect()`: disconnect()
\* runs and returns None, and awaiting None raises TypeError, which ends the
\* handler before remove_all_listeners() and before the ids that follow
on_unsubscribe_entities(entity_ids) ==
    /\ driver.started
    /\ LET unsubscribed ==
               [driver EXCEPT !.configured_entities = @ /\ ~in_ids(entity_ids)]
       IN  IF in_ids(entity_ids) /\ driver.configured_devices
           THEN /\ disconnect
                /\ driver' = ran([unsubscribed EXCEPT
                                     !.scheduled = scheduled_after(driver.listeners)],
                                 "on_unsubscribe_entities", entity_ids, "TypeError")
           ELSE /\ DeviceUntouched
                /\ driver' = ran(unsubscribed, "on_unsubscribe_entities", entity_ids, "")
    /\ UNCHANGED command

\* the handler task at the head of the queue runs on_device_connected:
\* on_device_update(identifier, attributes) is called without await, which
\* makes a coroutine object that is never run, so no attribute is applied;
\* then the hub is told the driver is connected
on_device_connected ==
    /\ driver.scheduled # <<>>
    /\ events[Head(driver.scheduled)].type = CONNECTED_EVENT
    /\ driver' = [ran(driver, "on_device_connected", <<>>, "") EXCEPT
                     !.scheduled = Tail(@),
                     !.handled = Some(Head(driver.scheduled)),
                     !.device_state = CONNECTED]
    /\ DeviceUntouched
    /\ UNCHANGED command

\* the handler task at the head of the queue runs on_device_disconnected
on_device_disconnected ==
    /\ driver.scheduled # <<>>
    /\ events[Head(driver.scheduled)].type = DISCONNECTED_EVENT
    /\ driver' = [ran(driver, "on_device_disconnected", <<>>, "") EXCEPT
                     !.scheduled = Tail(@),
                     !.handled = Some(Head(driver.scheduled)),
                     !.entity_attributes =
                         IF driver.configured_entities
                         THEN update_attributes(@, [state |-> "UNAVAILABLE"])
                         ELSE @,
                     !.device_state = DISCONNECTED]
    /\ DeviceUntouched
    /\ UNCHANGED command

\* the handler task at the head of the queue runs on_device_update
on_device_update ==
    /\ driver.scheduled # <<>>
    /\ events[Head(driver.scheduled)].type = UPDATE_EVENT
    /\ LET attributes == events[Head(driver.scheduled)].args[2]
       IN  driver' = [ran(driver, "on_device_update", <<>>, "") EXCEPT
                         !.scheduled = Tail(@),
                         !.handled = Some(Head(driver.scheduled)),
                         !.entity_attributes =
                             IF /\ DOMAIN attributes # {}
                                /\ driver.configured_entities \/ driver.available_entities
                             THEN update_attributes(@, attributes)
                             ELSE @]
    /\ DeviceUntouched
    /\ UNCHANGED command

WithinDriverBounds ==
    /\ Len(tasks') <= MaxDriverTasks
    /\ Len(events') <= MaxDriverEvents
    /\ \A t \in 1..Len(tasks') : tasks'[t].connection_attempt <= MaxAttempt

InitDriver ==
    /\ connection_state = DISCONNECTED
    /\ connection_task = None
    /\ media_player_attributes = DefaultAttributes
    /\ tasks = <<>>
    /\ events = <<>>
    /\ last_op = "init"
    /\ call = [fn |-> "none"]
    /\ \E in_config \in BOOLEAN : driver = [DriverIdle EXCEPT !.config = in_config]
    /\ command = CommandIdle

NextDriver ==
    \/ main /\ WithinDriverBounds
    \/ on_device_added /\ WithinDriverBounds
    \/ \E all \in BOOLEAN : on_device_removed(all) /\ WithinDriverBounds
    \/ on_r2_connect_cmd /\ WithinDriverBounds
    \/ on_r2_disconnect_cmd /\ WithinDriverBounds
    \/ on_r2_enter_standby /\ WithinDriverBounds
    \/ on_r2_exit_standby /\ WithinDriverBounds
    \/ \E entity_ids \in EntityIdLists : on_subscribe_entities(entity_ids) /\ WithinDriverBounds
    \/ \E entity_ids \in EntityIdLists : on_unsubscribe_entities(entity_ids) /\ WithinDriverBounds
    \/ on_device_connected /\ WithinDriverBounds
    \/ on_device_disconnected /\ WithinDriverBounds
    \/ on_device_update /\ WithinDriverBounds
    \/ \E t \in 1..Len(tasks) : connection_enter(t) /\ WithinDriverBounds /\ device_step
    \/ \E t \in 1..Len(tasks) : connection_poll_reply(t) /\ WithinDriverBounds /\ device_step
    \/ \E t \in 1..Len(tasks) : connection_poll_error(t) /\ WithinDriverBounds /\ device_step
    \/ \E t \in 1..Len(tasks) : connection_wake(t) /\ WithinDriverBounds /\ device_step
    \/ \E t \in 1..Len(tasks) : connection_cancelled(t) /\ WithinDriverBounds /\ device_step

SpecDriver == InitDriver /\ [][NextDriver]_vars

(***************************************************************************)
(* The driver while the hub stays subscribed and the player's connection   *)
(* comes and goes: main, the subscription, the poll loop and the handlers  *)
(* of the device's events.                                                 *)
(***************************************************************************)
MaxReconnectEvents == 5

WithinReconnectBounds ==
    /\ Len(events') <= MaxReconnectEvents
    /\ \A t \in 1..Len(tasks') : tasks'[t].connection_attempt <= MaxAttempt

NextReconnect ==
    \/ main /\ WithinReconnectBounds
    \/ \E entity_ids \in EntityIdLists : on_subscribe_entities(entity_ids) /\ WithinReconnectBounds
    \/ on_device_connected /\ WithinReconnectBounds
    \/ on_device_disconnected /\ WithinReconnectBounds
    \/ on_device_update /\ WithinReconnectBounds
    \/ \E t \in 1..Len(tasks) : connection_enter(t) /\ WithinReconnectBounds /\ device_step
    \/ \E t \in 1..Len(tasks) : connection_poll_reply(t) /\ WithinReconnectBounds /\ device_step
    \/ \E t \in 1..Len(tasks) : connection_poll_error(t) /\ WithinReconnectBounds /\ device_step
    \/ \E t \in 1..Len(tasks) : connection_wake(t) /\ WithinReconnectBounds /\ device_step

SpecReconnect == InitDriver /\ [][NextReconnect]_vars

(***************************************************************************)
(* Helpers of the properties                                               *)
(***************************************************************************)
TaskIds == 1..Len(tasks)

\* the tasks that are still to run and were not cancelled
LiveTasks == {t \in TaskIds : tasks[t].pc # "done" /\ ~tasks[t].must_cancel}

\* the event types emitted so far
EventTypes == [i \in 1..Len(events) |-> events[i].type]

IsLastEvent(type) == events # <<>> /\ events[Len(events)].type = type

(***************************************************************************)
(* C1: a device has at most one poll loop that is not cancelled, and it is *)
(* the one the task handle names; connect() while a loop is active creates *)
(* no task and changes neither the task handle, the connection state nor   *)
(* the emitted events.                                                     *)
(***************************************************************************)
C1_AtMostOneLoop ==
    /\ Cardinality(LiveTasks) <= 1
    /\ \A t \in LiveTasks : connection_task = Some(t)

C1_ConnectTwiceIsNoOp ==
    /\ []C1_AtMostOneLoop
    /\ [][last_op' = "connect" /\ connection_task # None
            => UNCHANGED <<tasks, connection_task, connection_state, events>>]_vars

\* connect() was called while the only loop was already polling
C1_Witness ==
    /\ last_op = "connect"
    /\ Len(tasks) = 1
    /\ tasks[1].pc = "request"
    /\ connection_task = Some(1)

C3_DisconnectActiveLoop ==
    [][last_op' = "disconnect" /\ connection_task # None
         => /\ tasks[connection_task[1]].pc \in {"created", "request", "sleep"}
            /\ tasks'[connection_task[1]].must_cancel
            /\ \A t \in TaskIds \ {connection_task[1]} : tasks'[t] = tasks[t]
            /\ Len(tasks') = Len(tasks)
            /\ connection_state' = DISCONNECTED
            /\ connection_task' = None
            /\ events' = Append(events, [type |-> DISCONNECTED_EVENT,
                                          args |-> <<Identifier>>,
                                          connection_state |-> DISCONNECTED])]_vars

\* a loop was cancelled while awaiting its request, the next one in its sleep
C3_Witness ==
    /\ last_op = "disconnect"
    /\ Len(tasks) = 2
    /\ tasks[1].cancelled_in = "request"
    /\ tasks[2].cancelled_in = "sleep"
    /\ tasks[2].must_cancel
    /\ IsLastEvent(DISCONNECTED_EVENT)

(***************************************************************************)
(* C4: once disconnect() has cancelled a poll loop, that loop's only step  *)
(* is to end: it emits no event, changes neither the connection state nor  *)
(* the snapshot and does not count an attempt (the failure branch is not   *)
(* entered), also when a new loop has been started meanwhile.              *)
(***************************************************************************)
C4_CancelledLoopIsSilent ==
    [][\A t \in TaskIds :
          tasks[t].cancelled_in # "" /\ tasks'[t] # tasks[t]
          => /\ tasks'[t].pc = "done"
             /\ tasks'[t].connection_attempt = tasks[t].connection_attempt
             /\ UNCHANGED <<events, connection_state, media_player_attributes,
                            connection_task>>]_vars

\* the loop cancelled during its request ended while the next loop was
\* connecting
C4_Witness ==
    /\ last_op = "cancelled"
    /\ Len(tasks) = 2
    /\ tasks[1].pc = "done"
    /\ tasks[1].cancelled_in = "request"
    /\ tasks[2].pc = "request"
    /\ connection_state = CONNECTING

(***************************************************************************)
(* C5: every step that makes the connection state Connected starts in     *)
(* state Connecting; Disconnected is never followed directly by Connected. *)
(***************************************************************************)
C5_NeverSkipsConnecting ==
    [][connection_state' = CONNECTED /\ connection_state # CONNECTED
         => connection_state = CONNECTING]_vars

\* a second loop, started after a disconnect, has connected
C5_Witness ==
    /\ connection_state = CONNECTED
    /\ Len(tasks) = 2
    /\ EventTypes = <<CONNECTING_EVENT, DISCONNECTED_EVENT, CONNECTING_EVENT,
                      CONNECTED_EVENT>>

(***************************************************************************)
(* C6: in the event trace, every Connected is immediately preceded by a    *)
(* Connecting, every Update comes after a Connected with no Disconnected   *)
(* or Connecting in between, and between two Connecting events there is a  *)
(* Disconnected.                                                           *)
(***************************************************************************)
C6_EventOrder ==
    \A i \in 1..Len(events) :
        /\ events[i].type = CONNECTED_EVENT
             => i > 1 /\ events[i - 1].type = CONNECTING_EVENT
        /\ events[i].type = UPDATE_EVENT
             => \E j \in 1..(i - 1) :
                   /\ events[j].type = CONNECTED_EVENT
                   /\ \A k \in (j + 1)..(i - 1) :
                         events[k].type \notin {DISCONNECTED_EVENT, CONNECTING_EVENT}
        /\ events[i].type = CONNECTING_EVENT
             => \A j \in 1..(i - 1) :
                   events[j].type = CONNECTING_EVENT
                   => \E k \in (j + 1)..(i - 1) : events[k].type = DISCONNECTED_EVENT

\* connected, updated, lost the connection and reconnecting
C6_Witness ==
    EventTypes = <<CONNECTING_EVENT, CONNECTED_EVENT, UPDATE_EVENT,
                   DISCONNECTED_EVENT, CONNECTING_EVENT>>

(***************************************************************************)
(* C7: a successful poll in state Connecting sets the state Connected,     *)
(* emits exactly one event, Connected with the complete new snapshot (all  *)
(* eight keys), and stores that snapshot.                                  *)
(***************************************************************************)
C7_FirstSuccessConnects ==
    [][last_op' = "poll_ok" /\ connection_state = CONNECTING
         => /\ connection_state' = CONNECTED
            /\ \E status \in PollStatuses :
                  /\ ~attributes_for_status_raises(status)
                  /\ media_player_attributes' =
                        attributes_for_status(status, media_player_attributes)
            /\ DOMAIN media_player_attributes' = AttributeKeys
            /\ events' = Append(events, [type |-> CONNECTED_EVENT,
                                          args |-> <<Identifier, media_player_attributes'>>,
                                          connection_state |-> CONNECTED])
            /\ DOMAIN events'[Len(events')].args[2] = AttributeKeys]_vars

\* a reconnect whose snapshot equals the one stored before
C7_Witness ==
    /\ last_op = "poll_ok"
    /\ EventTypes = <<CONNECTING_EVENT, CONNECTED_EVENT, DISCONNECTED_EVENT,
                      CONNECTING_EVENT, CONNECTED_EVENT>>
    /\ events[5].args[2] = events[2].args[2]
    /\ media_player_attributes = events[5].args[2]

(***************************************************************************)
(* C8: a successful poll in state Connected keeps the state Connected and  *)
(* stores the new snapshot; it emits one Update whose payload is the       *)
(* changed attributes (the whole snapshot when the state attribute         *)
(* changed) when the snapshot changed, and no event when it did not.  When *)
(* only the volume changed the payload is the volume alone.                *)
(***************************************************************************)
C8_ChangedKeys(old, new) == {key \in AttributeKeys : new[key] # old[key]}

C8_SuccessWhileConnected ==
    [][last_op' = "poll_ok" /\ connection_state = CONNECTED
         => /\ connection_state' = CONNECTED
            /\ \E status \in PollStatuses :
                  /\ ~attributes_for_status_raises(status)
                  /\ media_player_attributes' =
                        attributes_for_status(status, media_player_attributes)
            /\ LET old == media_player_attributes
                   new == media_player_attributes'
               IN  IF new = old
                   THEN events' = events
                   ELSE /\ Len(events') = Len(events) + 1
                        /\ SubSeq(events', 1, Len(events)) = events
                        /\ events'[Len(events')].type = UPDATE_EVENT
                        /\ events'[Len(events')].args[1] = Identifier
                        /\ events'[Len(events')].args[2] =
                              filter_changed_attributes(Some(old), new)
                        /\ DOMAIN events'[Len(events')].args[2] =
                              IF new.state # old.state THEN AttributeKeys
                              ELSE C8_ChangedKeys(old, new)
                        /\ \A key \in DOMAIN events'[Len(events')].args[2] :
                              events'[Len(events')].args[2][key] = new[key]]_vars

\* only the volume changed, from 10 to 12: Update carries {volume: 12}
C8_Witness ==
    /\ last_op = "poll_ok"
    /\ IsLastEvent(UPDATE_EVENT)
    /\ DOMAIN events[Len(events)].args[2] = {"volume"}
    /\ events[Len(events)].args[2]["volume"] = 12
    /\ events[Len(events) - 1].type = CONNECTED_EVENT
    /\ events[Len(events) - 1].args[2].volume = 10
    /\ connection_state = CONNECTED

(***************************************************************************)
(* C9: _filter_changed_attributes returns the whole new snapshot when the  *)
(* previous one is absent or its state differs from the new one, and       *)
(* otherwise exactly the keys whose values differ, each with its new       *)
(* value.                                                                  *)
(***************************************************************************)
C9_FilterChangedAttributes ==
    call.fn = "_filter_changed_attributes" /\ call.returned
    => LET new == call.new_attributes
           old == call.old_attributes
       IN  IF old = None \/ old[1].state # new.state
           THEN call.result = new
           ELSE /\ DOMAIN call.result = {key \in AttributeKeys : old[1][key] # new[key]}
                /\ \A key \in DOMAIN call.result : call.result[key] = new[key]

\* same state, only volume and title differ: those two keys are returned
C9_Witness ==
    /\ call.fn = "_filter_changed_attributes"
    /\ call.returned
    /\ call.old_attributes # None
    /\ DOMAIN call.result = {"volume", "media_title"}
    /\ call.result["volume"] = 12
    /\ call.old_attributes[1].volume = 10

(***************************************************************************)
(* C10 as stated: the mapped state attribute is Off if and only if the     *)
(* player mode is standby, whatever the playback mode, the buffering flag  *)
(* and the previous state are.                                             *)
(***************************************************************************)
C10_OffIffStandby ==
    call.fn = "_attributes_for_status" /\ call.returned /\ ~call.raised
    => (call.result.state = "OFF" <=> call.status.player_state = "standby")

(***************************************************************************)
(* C10 amended: the mapped state attribute is Off when the player mode is  *)
(* standby; when it is not standby, the state is Off only if the playback  *)
(* mode is seeking, the buffering flag is not set and the stored state was *)
(* already Off (seeking keeps the stored state).                           *)
(***************************************************************************)
C10_OffIffStandbyOrSeekingFromOff ==
    call.fn = "_attributes_for_status" /\ call.returned
    => /\ call.state = "OFF"
            <=> \/ call.status.player_state = "standby"
                \/ /\ call.status.playback_state = Some("seeking")
                   /\ call.status.playback_is_buffering \in {None, Some(FALSE)}
                   /\ media_player_attributes.state = "OFF"
       /\ ~call.raised => call.result.state = call.state

\* standby wins over a set buffering flag and a playing playback mode
C10_Witness ==
    /\ call.fn = "_attributes_for_status"
    /\ call.returned
    /\ ~call.raised
    /\ call.status.player_state = "standby"
    /\ call.status.playback_is_buffering = Some(TRUE)
    /\ call.status.playback_state = Some("playing")
    /\ media_player_attributes.state = "PLAYING"
    /\ call.result.state = "OFF"

(***************************************************************************)
(* C11 as stated: for every status whose playback mode is seeking, the     *)
(* mapped state attribute equals the state attribute of the snapshot       *)
(* stored before the poll, whatever the player mode and the buffering flag *)
(* are.                                                                    *)
(***************************************************************************)
C11_SeekingKeepsStoredState ==
    /\ call.fn = "_attributes_for_status" /\ call.returned /\ ~call.raised
    /\ call.status.playback_state = Some("seeking")
    => call.result.state = media_player_attributes.state

(***************************************************************************)
(* C11 amended: for a status whose playback mode is seeking, the mapped    *)
(* state attribute equals the stored state attribute when the player mode  *)
(* is not standby and the buffering flag is not set; a seeking status in   *)
(* standby maps to Off and a seeking status with the buffering flag set    *)
(* maps to Buffering, whatever the stored state is.                        *)
(***************************************************************************)
C11_SeekingKeepsStoredStateAfterEarlierRules ==
    /\ call.fn = "_attributes_for_status" /\ call.returned
    /\ call.status.playback_state = Some("seeking")
    => /\ call.state =
             IF call.status.player_state = "standby" THEN "OFF"
             ELSE IF call.status.playback_is_buffering = Some(TRUE) THEN "BUFFERING"
             ELSE media_player_attributes.state
       /\ ~call.raised => call.result.state = call.state

\* a seeking poll during file playback keeps a stored Paused state
C11_Witness ==
    /\ call.fn = "_attributes_for_status"
    /\ call.returned
    /\ ~call.raised
    /\ call.status.playback_state = Some("seeking")
    /\ call.status.player_state = "file_playback"
    /\ call.status.playback_is_buffering = Some(FALSE)
    /\ media_player_attributes.state = "PAUSED"
    /\ call.result.state = "PAUSED"

(***************************************************************************)
(* C12 as stated: for every device status in which optional fields may be  *)
(* absent, the mapper raises no error and returns a snapshot with all      *)
(* eight keys and no null value.  (The image url is the one value the      *)
(* mapper takes from an Optional without a default expression.)            *)
(***************************************************************************)
C12_MapperNeverRaises ==
    call.fn = "_attributes_for_status" /\ call.returned
    => /\ ~call.raised
       /\ DOMAIN call.result = AttributeKeys
       /\ call.result.media_image_url # None

(***************************************************************************)
(* C20: the mapped state attribute follows the rule order with first match *)
(* winning: standby gives Off; else buffering flag set or playback mode    *)
(* initializing gives Buffering; else playing gives Playing; else paused   *)
(* gives Paused; else seeking gives the stored state; else On.             *)
(***************************************************************************)
C20_Standby == call.status.player_state = "standby"
C20_Buffering ==
    \/ call.status.playback_is_buffering = Some(TRUE)
    \/ call.status.playback_state = Some("initializing")

C20_StateRuleOrder ==
    call.fn = "_attributes_for_status" /\ call.returned
    => /\ C20_Standby => call.state = "OFF"
       /\ ~C20_Standby /\ C20_Buffering => call.state = "BUFFERING"
       /\ ~C20_Standby /\ ~C20_Buffering
             => /\ call.status.playback_state = Some("playing")
                      => call.state = "PLAYING"
                /\ call.status.playback_state = Some("paused")
                      => call.state = "PAUSED"
                /\ call.status.playback_state = Some("seeking")
                      => call.state = media_player_attributes.state
                /\ call.status.playback_state \in {None, Some("stopped")}
                      => call.state = "ON"
       /\ ~call.raised => call.result.state = call.state

\* the buffering rule wins over a playing playback mode, and initializing
\* alone gives Buffering
C20_Witness ==
    /\ call.fn = "_attributes_for_status"
    /\ call.returned
    /\ ~call.raised
    /\ call.status.player_state = "file_playback"
    /\ call.status.playback_state = Some("initializing")
    /\ call.status.playback_is_buffering = Some(FALSE)
    /\ media_player_attributes.state = "PLAYING"
    /\ call.result.state = "BUFFERING"

(***************************************************************************)
(* C14: a failed poll while the state is Connected emits exactly two       *)
(* events, Disconnected then Connecting in that order, and leaves the      *)
(* state Connecting with the last-known snapshot unchanged.                *)
(***************************************************************************)
C14_FailureWhileConnected ==
    [][last_op' = "poll_failed" /\ connection_state = CONNECTED
         => /\ events' = events \o
                  <<[type |-> DISCONNECTED_EVENT, args |-> <<Identifier>>,
                     connection_state |-> CONNECTED],
                    [type |-> CONNECTING_EVENT, args |-> <<Identifier>>,
                     connection_state |-> CONNECTING]>>
            /\ connection_state' = CONNECTING
            /\ media_player_attributes' = media_player_attributes
            /\ connection_task' = connection_task]_vars

\* the connection was lost after an update; the snapshot of the update is
\* still stored
C14_Witness ==
    /\ last_op = "poll_failed"
    /\ EventTypes = <<CONNECTING_EVENT, CONNECTED_EVENT, UPDATE_EVENT,
                      DISCONNECTED_EVENT, CONNECTING_EVENT>>
    /\ connection_state = CONNECTING
    /\ media_player_attributes # DefaultAttributes
    /\ media_player_attributes.volume = events[3].args[2].volume

(***************************************************************************)
(* C17: the poll loop never ends because of poll outcomes.  A loop that    *)
(* has ended was cancelled; a loop that was not cancelled is waiting to    *)
(* start, waiting for a reply or sleeping, and its next step (the first    *)
(* poll, the outcome of the poll, the end of the sleep) can be taken.      *)
(***************************************************************************)
C17_LoopEndsOnlyByCancellation ==
    \A t \in TaskIds :
        /\ tasks[t].pc = "done" => tasks[t].cancelled_in # ""
        /\ tasks[t].cancelled_in = ""
             => /\ tasks[t].pc \in {"created", "request", "sleep"}
                /\ tasks[t].pc = "created" => ENABLED connection_enter(t)
                /\ tasks[t].pc = "request"
                     => ENABLED connection_poll_reply(t) /\ ENABLED connection_poll_error(t)
                /\ tasks[t].pc = "sleep"
                     => tasks[t].delay >= 1 /\ ENABLED connection_wake(t)

\* the loop polls again after a success, a lost connection and a further
\* failure, with no disconnect()
C17_Witness ==
    /\ Len(tasks) = 1
    /\ tasks[1].cancelled_in = ""
    /\ tasks[1].pc = "request"
    /\ last_op = "wake"
    /\ tasks[1].connection_attempt = 2
    /\ EventTypes = <<CONNECTING_EVENT, CONNECTED_EVENT, DISCONNECTED_EVENT,
                      CONNECTING_EVENT>>

(***************************************************************************)
(* C18: a failed poll while the state is Connecting emits no event, leaves *)
(* the state Connecting and the snapshot unchanged, and increases the      *)
(* attempt counter by exactly one.                                         *)
(***************************************************************************)
C18_FailureWhileConnecting ==
    [][last_op' = "poll_failed" /\ connection_state = CONNECTING
         => /\ events' = events
            /\ connection_state' = CONNECTING
            /\ media_player_attributes' = media_player_attributes
            /\ connection_task' = connection_task
            /\ \E t \in TaskIds :
                  /\ tasks[t].pc = "request"
                  /\ tasks'[t].connection_attempt = tasks[t].connection_attempt + 1
                  /\ \A u \in TaskIds \ {t} : tasks'[u] = tasks[u]]_vars

\* the first poll of a loop failed: still the one Connecting event, the
\* counter went from 1 to 2
C18_Witness ==
    /\ last_op = "poll_failed"
    /\ events = <<[type |-> CONNECTING_EVENT, args |-> <<Identifier>>,
                   connection_state |-> CONNECTING]>>
    /\ connection_state = CONNECTING
    /\ media_player_attributes = DefaultAttributes
    /\ Len(tasks) = 1
    /\ tasks[1].connection_attempt = 2
    /\ tasks[1].failures = 1

(***************************************************************************)
(* C13: the raw backoff delay min(attempt x 2, 30) is non-decreasing in    *)
(* the attempt counter and equals 30 for every attempt counter of 15 or    *)
(* more; no sequence of failed polls yields a raw delay above 30.  The raw *)
(* delay of a failed poll is read off the sleep that follows a failed      *)
(* request of no measurable duration (delay in tenths of a second).        *)
(***************************************************************************)
C13_RawBackoffCapped ==
    /\ \A a \in 1..MaxBackoffAttempt :
          /\ raw_backoff(a) <= raw_backoff(a + 1)
          /\ raw_backoff(a) <= 30
          /\ a >= 15 => raw_backoff(a) = 30
    /\ \A t \in TaskIds :
          tasks[t].pc = "sleep" /\ tasks[t].last_poll = "failed"
          => /\ tasks[t].delay <= 300
             /\ tasks[t].duration = 0
                  => /\ tasks[t].delay = raw_backoff(tasks[t].connection_attempt) * 10
                     /\ tasks[t].connection_attempt >= 15 => tasks[t].delay = 300
                     /\ tasks[t].connection_attempt < 15
                          => tasks[t].delay = 20 * tasks[t].connection_attempt

\* fifteen failed polls in a row from loop entry: the counter is 16, past
\* the cap
C13_Witness ==
    /\ Len(tasks) = 1
    /\ tasks[1].pc = "sleep"
    /\ tasks[1].last_poll = "failed"
    /\ tasks[1].connection_attempt = 16
    /\ tasks[1].duration = 0
    /\ tasks[1].delay = 300

(***************************************************************************)
(* C15: the first failed poll after a successful poll computes its delay   *)
(* with attempt counter 1 (raw delay 2), however many failures preceded    *)
(* that success; every other failed poll raises the counter by one.        *)
(***************************************************************************)
C15_FailureAfterSuccessRestartsBackoff ==
    [][last_op' = "poll_failed"
         => \E t \in TaskIds :
               /\ tasks[t].pc = "request"
               /\ tasks'[t].pc = "sleep"
               /\ IF tasks[t].last_poll = "ok"
                  THEN /\ tasks'[t].connection_attempt = 1
                       /\ tasks'[t].delay = Max(20 - tasks'[t].duration, 1)
                  ELSE tasks'[t].connection_attempt = tasks[t].connection_attempt + 1]_vars

\* the poll after the first success failed quickly: counter 1, a sleep of
\* 2 seconds
C15_Witness ==
    /\ last_op = "poll_failed"
    /\ Len(tasks) = 1
    /\ tasks[1].connection_attempt = 1
    /\ tasks[1].failures = 1
    /\ tasks[1].duration = 0
    /\ tasks[1].delay = 20
    /\ EventTypes = <<CONNECTING_EVENT, CONNECTED_EVENT, DISCONNECTED_EVENT,
                      CONNECTING_EVENT>>

\* no poll of the device has succeeded: no Connected event was emitted
C16_NeverAnswered == \A i \in 1..Len(events) : events[i].type # CONNECTED_EVENT

(***************************************************************************)
(* C16 as stated: in a run of consecutive failed polls that starts at loop *)
(* entry, the k-th failed poll has raw backoff delay min(2k, 30): 2, 4, 6, *)
(* 8, ... capped at 30.                                                    *)
(***************************************************************************)
C16_KthFailureDelay ==
    \A t \in TaskIds :
        tasks[t].pc = "sleep" /\ tasks[t].last_poll = "failed" /\ C16_NeverAnswered
        => raw_backoff(tasks[t].connection_attempt) = Min(2 * tasks[t].failures, 30)

(***************************************************************************)
(* C16 amended: in a run of consecutive failed polls that starts at loop   *)
(* entry, the counter is 1 at entry and is raised before the delay is      *)
(* computed, so the k-th failed poll has attempt counter k + 1 and raw     *)
(* backoff delay min(2(k + 1), 30): 4, 6, 8, ... capped at 30.             *)
(***************************************************************************)
C16_KthFailureDelayFromTwo ==
    \A t \in TaskIds :
        tasks[t].pc = "sleep" /\ tasks[t].last_poll = "failed" /\ C16_NeverAnswered
        => /\ tasks[t].connection_attempt = tasks[t].failures + 1
           /\ raw_backoff(tasks[t].connection_attempt)
                 = Min(2 * (tasks[t].failures + 1), 30)
           /\ tasks[t].duration = 0
                => tasks[t].delay = Min(2 * (tasks[t].failures + 1), 30) * 10

\* the third failed poll from loop entry sleeps 8 seconds
C16_Witness ==
    /\ Len(tasks) = 1
    /\ tasks[1].pc = "sleep"
    /\ tasks[1].last_poll = "failed"
    /\ tasks[1].failures = 3
    /\ tasks[1].duration = 0
    /\ tasks[1].delay = 80
    /\ events = <<[type |-> CONNECTING_EVENT, args |-> <<Identifier>>,
                   connection_state |-> CONNECTING]>>

(***************************************************************************)
(* C19: the sleep after every failed poll is                               *)
(* max(min(attempt x 2, 30) - elapsed, 0.1): never below 0.1 and never     *)
(* above 30 time units, for any attempt counter and any elapsed request    *)
(* time, elapsed times longer than the raw delay included (delay and       *)
(* elapsed time in tenths of a time unit).                                 *)
(***************************************************************************)
C19_SleepAfterFailure ==
    \A t \in TaskIds :
        tasks[t].pc = "sleep" /\ tasks[t].last_poll = "failed"
        => LET attempt == tasks[t].connection_attempt
               raw == IF attempt * 2 <= 30 THEN attempt * 2 ELSE 30
               rest == raw * 10 - tasks[t].duration
           IN  /\ tasks[t].delay = IF rest >= 1 THEN rest ELSE 1
               /\ tasks[t].delay >= 1
               /\ tasks[t].delay <= 300

\* a request that failed after 5 seconds, longer than the raw delay of 4
\* seconds: the loop sleeps 0.1 seconds
C19_Witness ==
    /\ Len(tasks) = 1
    /\ tasks[1].pc = "sleep"
    /\ tasks[1].last_poll = "failed"
    /\ tasks[1].connection_attempt = 2
    /\ tasks[1].duration = 50
    /\ tasks[1].delay = 1

(***************************************************************************)
(* C21: in every reachable state, if the connection state is Connected     *)
(* then a loop is active and its most recently completed poll succeeded;   *)
(* the state is never Connected after a failed poll.                       *)
(***************************************************************************)
C21_ConnectedOnlyAfterSuccess ==
    /\ connection_state = CONNECTED
         => /\ connection_task # None
            /\ tasks[connection_task[1]].last_poll = "ok"
    /\ last_op = "poll_failed" => connection_state # CONNECTED

\* connected again after a lost connection: the poll before the latest one
\* had failed
C21_Witness ==
    /\ connection_state = CONNECTED
    /\ last_op = "poll_ok"
    /\ Len(tasks) = 1
    /\ tasks[1].last_poll = "ok"
    /\ EventTypes = <<CONNECTING_EVENT, CONNECTED_EVENT, DISCONNECTED_EVENT,
                      CONNECTING_EVENT, CONNECTED_EVENT>>

\* a poll of the device has succeeded: every first success of a loop emits
\* Connected
C22_SomePollSucceeded == \E i \in 1..Len(events) : events[i].type = CONNECTED_EVENT

(***************************************************************************)
(* C22: in every reachable state the snapshot returned by the attribute    *)
(* accessor contains all eight attribute keys; before any poll has         *)
(* succeeded it equals the defaults (state Unavailable, media type empty,  *)
(* duration 0, position 0, title empty, image placeholder, volume 0, muted *)
(* false).                                                                 *)
(***************************************************************************)
C22_SnapshotFullyPopulated ==
    /\ DOMAIN media_player_attributes = AttributeKeys
    /\ ~C22_SomePollSucceeded
         => /\ media_player_attributes = DefaultAttributes
            /\ media_player_attributes.state = "UNAVAILABLE"
            /\ media_player_attributes.media_type = ""
            /\ media_player_attributes.media_duration = 0
            /\ media_player_attributes.media_position = 0
            /\ media_player_attributes.media_title = ""
            /\ media_player_attributes.media_image_url = EMPTY_IMAGE
            /\ media_player_attributes.volume = 0
            /\ ~media_player_attributes.muted

\* after an update that carried the volume alone the stored snapshot still
\* has all eight keys
C22_Witness ==
    /\ last_op = "poll_ok"
    /\ EventTypes = <<CONNECTING_EVENT, CONNECTED_EVENT, UPDATE_EVENT>>
    /\ DOMAIN events[3].args[2] = {"volume"}
    /\ DOMAIN media_player_attributes = AttributeKeys
    /\ media_player_attributes.volume = 12

(***************************************************************************)
(* C30: in every reachable state, if the device's task handle is empty     *)
(* then its connection state is Disconnected; the state is Connecting or   *)
(* Connected only while a poll-loop task handle is held.                   *)
(***************************************************************************)
C30_NoHandleMeansDisconnected ==
    /\ connection_task = None => connection_state = DISCONNECTED
    /\ connection_state \in {CONNECTING, CONNECTED} => connection_task # None

\* disconnected while connected: the handle is dropped and the state is
\* Disconnected although the cancelled loop has not ended yet
C30_Witness ==
    /\ connection_task = None
    /\ connection_state = DISCONNECTED
    /\ last_op = "disconnect"
    /\ Len(tasks) = 1
    /\ tasks[1].must_cancel
    /\ tasks[1].last_poll = "ok"

\* the connection state that an event of the poll loop announces; the loop
\* emits Disconnected on its way from Connected to Connecting
C24_Announced(type) ==
    CASE type = CONNECTING_EVENT -> CONNECTING
      [] type = CONNECTED_EVENT -> CONNECTED
      [] type = DISCONNECTED_EVENT -> CONNECTING
      [] OTHER -> CONNECTED

(***************************************************************************)
(* C24 as stated: at the moment the poll loop emits an event, the          *)
(* connection state already holds the state that the event announces:      *)
(* Connecting when Connecting is emitted, Connected when Connected is      *)
(* emitted, and already Connecting (no longer Connected) when the loop     *)
(* emits Disconnected after a failed poll.                                 *)
(***************************************************************************)
C24_StateSetBeforeEmit ==
    [][last_op' \in {"enter", "poll_ok", "poll_failed"}
         => \A i \in (Len(events) + 1)..Len(events') :
               events'[i].connection_state = C24_Announced(events'[i].type)]_vars

(***************************************************************************)
(* C23: a status request that is in flight when disconnect() is called is  *)
(* abandoned: disconnect() leaves the snapshot as it was, sets the state    *)
(* Disconnected and emits Disconnected only, and the only later step of    *)
(* the cancelled loop is its end, which changes neither the snapshot nor   *)
(* the state nor the event log, even if the reply had already arrived when *)
(* the cancellation was requested.                                         *)
(***************************************************************************)
C23_RequestInFlightIsAbandoned ==
    [][/\ last_op' = "disconnect" /\ connection_task # None
          /\ tasks[connection_task[1]].pc = "request"
          => /\ media_player_attributes' = media_player_attributes
             /\ connection_state' = DISCONNECTED
             /\ Len(events') = Len(events) + 1
             /\ SubSeq(events', 1, Len(events)) = events
             /\ events'[Len(events')].type = DISCONNECTED_EVENT
             /\ tasks'[connection_task[1]].response_arrived
                  = tasks[connection_task[1]].response_arrived
       /\ \A t \in TaskIds :
             tasks[t].cancelled_in = "request" /\ tasks'[t] # tasks[t]
             => /\ tasks'[t].pc = "done"
                /\ UNCHANGED <<events, connection_state, media_player_attributes,
                               connection_task>>]_vars

\* the reply to the second poll had arrived when disconnect() was called; the
\* loop has ended and the snapshot is still the one of the Connected event
C23_Witness ==
    /\ last_op = "cancelled"
    /\ Len(tasks) = 1
    /\ tasks[1].pc = "done"
    /\ tasks[1].cancelled_in = "request"
    /\ tasks[1].response_arrived
    /\ connection_state = DISCONNECTED
    /\ EventTypes = <<CONNECTING_EVENT, CONNECTED_EVENT, DISCONNECTED_EVENT>>
    /\ media_player_attributes = events[2].args[2]

(***************************************************************************)
(* C26: if connect() has been called, disconnect() is not called           *)
(* afterwards and from some point on every status request succeeds, then   *)
(* under fair scheduling of the poll loop the connection state eventually  *)
(* becomes Connected and a Connected event is emitted (the latest event    *)
(* apart from Updates).  The premise leaves room in the bounded event log  *)
(* for that event.                                                         *)
(***************************************************************************)
C26_Connected ==
    /\ connection_state = CONNECTED
    /\ \E i \in 1..Len(events) :
          /\ events[i].type = CONNECTED_EVENT
          /\ \A j \in (i + 1)..Len(events) : events[j].type = UPDATE_EVENT

C25_PollAndCommandNeverTogether ==
    ~(/\ command.pc = "request"
      /\ \E t \in TaskIds : tasks[t].pc = "request" /\ ~tasks[t].must_cancel)

\* C27: after on_unsubscribe_entities(ids) has run, every configured device
\* whose identifier is in ids is disconnected (no poll loop, state
\* Disconnected) and has no event listener registered
C27_UnsubscribedDeviceIsSilent ==
    (/\ driver.op = "on_unsubscribe_entities"
     /\ in_ids(driver.ids)
     /\ driver.configured_devices)
        => /\ connection_task = None
           /\ connection_state = DISCONNECTED
           /\ driver.listeners = {}

\* C28: while a device is out of the configuration after a removal, no hub
\* event has started a poll loop for it; and a configured device that is in
\* the configuration (added again after a removal included) has its
\* Connected, Disconnected and Update listeners registered
C28_RemovedStaysStopped ==
    /\ (~driver.config /\ driver.op # "import") => connection_task = None
    /\ (driver.config /\ driver.configured_devices)
          => {CONNECTED_EVENT, DISCONNECTED_EVENT, UPDATE_EVENT} \subseteq driver.listeners

\* C29: when the driver has handled a Connected event with snapshot S that
\* followed a Disconnected event, the hub entity's state attribute equals
\* the state of S
C29_ReconnectAppliesSnapshot ==
    \A i \in 1..Len(events) :
        (/\ driver.op = "on_device_connected"
         /\ driver.handled = Some(i)
         /\ driver.configured_entities
         /\ \E j \in 1..(i - 1) : events[j].type = DISCONNECTED_EVENT)
            => driver.entity_attributes.state = events[i].args[2].state

\* C31: connect(), disconnect(), failed polls and every other step that is
\* not a successful poll leave the stored snapshot, which the accessor
\* media_player_attributes returns, as it was: only a successful poll
\* replaces it
C31_SnapshotChangesOnlyOnSuccess ==
    [][last_op' # "poll_ok" => media_player_attributes' = media_player_attributes]_vars

\* disconnect() after a successful poll: the device is Disconnected and the
\* snapshot of the poll is still stored, its state not Unavailable
C31_Witness ==
    /\ last_op = "disconnect"
    /\ connection_state = DISCONNECTED
    /\ \E t \in TaskIds : tasks[t].last_poll = "ok"
    /\ media_player_attributes # DefaultAttributes
    /\ media_player_attributes.state # "UNAVAILABLE"

=============================================================================
